---- MODULE Spec2Model ----
(***************************************************************************)
(* Model of count_objects.py: the per-frame counting / annotation pipeline *)
(* (count_per_class, annotate_frame, save_counts_csv) and the stream       *)
(* branch of main() (video or webcam source).                              *)
(*                                                                         *)
(* Confidences and thresholds are percentages (0.25 is 25).  Clock         *)
(* readings of time.time() are integers in the unit of the debounce        *)
(* interval's "2".  A dict is a function whose DOMAIN is its key set.      *)
(***************************************************************************)
EXTENDS Integers, Sequences, FiniteSets, TLC

\* ---------------------------------------------------------------- bounds
MaxDets == 3      \* detections per result in the pure-function runs
MaxFrames == 3    \* frames a source yields before end of stream
MaxTime == 7      \* largest clock reading
MaxCats == 11     \* classes of the model in the summary-panel runs

\* ------------------------------------------------------------ input sets
Confs == {20, 50, 90}
Thresholds == {25, 50}
ClassIds == {0, 1}
Labels == {"__total", "cat", "dog"}

\* Labels in the order Python's sorted() gives them (code point order).
LabelOrder ==
  <<"__total", "bear", "bird", "boat", "bus", "car", "cat", "cow", "dog",
    "horse", "kite", "person", "truck", "zebra">>

Rank(k) == CHOOSE i \in 1..Len(LabelOrder) : LabelOrder[i] = k

Detection == [conf : Confs, cls : ClassIds]

BoundedSeq(S, n) == UNION {[1..k -> S] : k \in 0..n}

\* ------------------------------------------------------------------ dict
EmptyDict == [k \in {} |-> 0]

Get(d, k, default) == IF k \in DOMAIN d THEN d[k] ELSE default

Put(d, k, v) == [x \in DOMAIN d \cup {k} |-> IF x = k THEN v ELSE d[x]]

RECURSIVE SumOver(_, _)
SumOver(d, keys) ==
  IF keys = {} THEN 0
  ELSE LET k == CHOOSE x \in keys : TRUE
       IN d[k] + SumOver(d, keys \ {k})

\* sorted((k,v) for k,v in counts.items() if k != "__total"): keys are
\* unique, so the pairs are ordered by key.
RECURSIVE SortKeys(_)
SortKeys(keys) ==
  IF keys = {} THEN <<>>
  ELSE LET k == CHOOSE x \in keys : \A y \in keys : Rank(x) <= Rank(y)
       IN <<k>> \o SortKeys(keys \ {k})

sorted_items(counts) == SortKeys(DOMAIN counts \ {"__total"})

\* ------------------------------------------------------- count_per_class
\* One pass of the loop body (lines 13-16) over r's detections, from i on.
RECURSIVE CountLoop(_, _, _, _, _)
CountLoop(r, names, conf_thresh, counts, i) ==
  IF i > Len(r) THEN counts
  ELSE IF r[i].conf < conf_thresh
       THEN CountLoop(r, names, conf_thresh, counts, i + 1)
       ELSE LET label == names[r[i].cls]
            IN CountLoop(r, names, conf_thresh,
                         Put(counts, label, Get(counts, label, 0) + 1), i + 1)

\* count_per_class with line 13 reading "conf <= conf_thresh".
RECURSIVE CountLoop_Strict(_, _, _, _, _)
CountLoop_Strict(r, names, conf_thresh, counts, i) ==
  IF i > Len(r) THEN counts
  ELSE IF r[i].conf <= conf_thresh
       THEN CountLoop_Strict(r, names, conf_thresh, counts, i + 1)
       ELSE LET label == names[r[i].cls]
            IN CountLoop_Strict(r, names, conf_thresh,
                                Put(counts, label, Get(counts, label, 0) + 1),
                                i + 1)

count_per_class_Strict(r, names, conf_thresh) ==
  LET counts == CountLoop_Strict(r, names, conf_thresh, EmptyDict, 1)
  IN Put(counts, "__total", SumOver(counts, DOMAIN counts \ {"__total"}))

count_per_class(r, names, conf_thresh) ==
  LET counts == CountLoop(r, names, conf_thresh, EmptyDict, 1)
  IN Put(counts, "__total", SumOver(counts, DOMAIN counts \ {"__total"}))

\* -------------------------------------------------------- annotate_frame
BlankFrame(n) == [id |-> n, boxes |-> <<>>, panel |-> <<>>, ops |-> <<>>]

\* The boxes drawn: one per kept detection, in input order; i stands for
\* the detection's box coordinates.
RECURSIVE DrawLoop(_, _, _, _)
DrawLoop(r, names, conf_thresh, i) ==
  IF i > Len(r) THEN <<>>
  ELSE IF r[i].conf < conf_thresh
       THEN DrawLoop(r, names, conf_thresh, i + 1)
       ELSE <<[box |-> i, label |-> names[r[i].cls], pct |-> r[i].conf]>>
            \o DrawLoop(r, names, conf_thresh, i + 1)

annotate_frame(frame, r, names, conf_thresh) ==
  [frame EXCEPT !.boxes = frame.boxes \o DrawLoop(r, names, conf_thresh, 1),
                !.ops = Append(frame.ops, "boxes")]

\* ------------------------------------------------------- save_counts_csv
\* str(int) as csv.writer applies it: the decimal digits.
RECURSIVE Str(_)
Str(n) == IF n < 10 THEN <<n>> ELSE Str(n \div 10) \o <<n % 10>>

RECURSIVE ParseInt(_)
ParseInt(s) ==
  IF Len(s) = 1 THEN s[1]
  ELSE 10 * ParseInt(SubSeq(s, 1, Len(s) - 1)) + s[Len(s)]

\* save_counts_csv with the filter k != "__total" of line 39 left out.
save_counts_csv_NoFilter(counts) ==
  LET ks == SortKeys(DOMAIN counts)
  IN <<<<"class", "count">>, <<"total", Str(Get(counts, "__total", 0))>>>>
     \o [i \in 1..Len(ks) |-> <<ks[i], Str(counts[ks[i]])>>]

\* The rows the file holds after the call (mode "w" truncates).
save_counts_csv(counts) ==
  LET ks == sorted_items(counts)
  IN <<<<"class", "count">>, <<"total", Str(Get(counts, "__total", 0))>>>>
     \o [i \in 1..Len(ks) |-> <<ks[i], Str(counts[ks[i]])>>]

\* ----------------------------------------------------------------- state
VARIABLES
  pc,             \* position in main()
  args_save,      \* --save
  args_csv,       \* --csv given (a destination is configured)
  args_conf,      \* --conf
  names,          \* the model's class id -> label mapping
  cap,            \* frame source: "none", "unopened", "opened", "released"
  writer,         \* cv2.VideoWriter: "none", "open", "closed"
  window,         \* display window: "none", "open", "destroyed"
  frames_read,    \* frames cap.read() has returned
  results,        \* detections of the current frame
  frame,          \* the current frame buffer
  counts,         \* snapshot of the current frame
  last_counts,
  last_csv_time,
  now,            \* latest reading of time.time()
  csv_file,       \* rows of the destination file (<<>>: never written)
  csv_writes,     \* clock readings (line 116) of the writes performed
  csv_stamps,     \* clock readings (line 118) stored after each write
  writer_frames,  \* ids of the frames handed to writer.write, in order
  writer_last,    \* the frame buffer writer.write received last
  shown_frames,   \* ids of the frames handed to cv2.imshow, in order
  shown_last,     \* the frame buffer cv2.imshow received last
  model_calls,    \* invocations of the model on a frame
  exit_status,    \* -1 while running, then the process exit status
  raised_by,      \* the call whose exception left main(), or "none"
  reported,       \* "Final counts" / "Saved CSV" printed
  steps,          \* the calls made so far in the current loop iteration
  saved_image     \* the annotated still written by cv2.imwrite

vars == <<pc, args_save, args_csv, args_conf, names, cap, writer, window,
          frames_read, results, frame, counts, last_counts, last_csv_time,
          now, csv_file, csv_writes, csv_stamps, writer_frames, writer_last,
          shown_frames, shown_last, model_calls, exit_status, raised_by,
          reported, steps, saved_image>>

\* Groups left unchanged together.
cfg_vars == <<args_save, args_csv, args_conf, names>>
sink_vars == <<writer_frames, writer_last, shown_frames, shown_last>>
csv_vars == <<last_csv_time, now, csv_file, csv_writes, csv_stamps>>
res_vars == <<cap, writer, window>>
end_vars == <<exit_status, raised_by, reported, saved_image>>

\* ------------------------------------------------------- stream run inputs
Interval == 2               \* line 116: "> 2"
Esc == 27                   \* line 113
PanelRows == 10             \* line 104: min(10, len(counts))
RowHeight == 18             \* line 104
\* First readings of time.time(): the epoch itself, and a reading more
\* than Interval after it (as any present-day clock gives).
StartClocks == {0, Interval + 1}
StreamConf == 25            \* line 46: default threshold
StreamNames == [c \in ClassIds |-> IF c = 0 THEN "cat" ELSE "dog"]
Keys == {Esc, 255}          \* waitKey(1) & 0xFF: ESC, or no key pressed

Det(c, k) == [conf |-> c, cls |-> k]

\* What the model may return for a frame.
FrameResults ==
  { <<>>, <<Det(90, 0)>>, <<Det(90, 0), Det(20, 1), Det(50, 0)>> }

Min(a, b) == IF a < b THEN a ELSE b

IdleState ==
  /\ cap = "none" /\ writer = "none" /\ window = "none"
  /\ frames_read = 0
  /\ frame = BlankFrame(0)
  /\ counts = EmptyDict /\ last_counts = EmptyDict
  /\ last_csv_time = 0
  /\ csv_file = <<>> /\ csv_writes = <<>> /\ csv_stamps = <<>>
  /\ writer_frames = <<>> /\ writer_last = BlankFrame(0)
  /\ shown_frames = <<>> /\ shown_last = BlankFrame(0)
  /\ model_calls = 0
  /\ exit_status = -1 /\ raised_by = "none" /\ reported = FALSE
  /\ saved_image = BlankFrame(0)
  /\ steps = <<>>

Init ==
  /\ pc = "open"
  /\ args_save \in BOOLEAN
  /\ args_csv \in BOOLEAN
  /\ args_conf = StreamConf
  /\ names = StreamNames
  /\ results = <<>>
  /\ now \in StartClocks
  /\ IdleState

\* --------------------------------------------------- main(): stream branch
\* OpenSource with the isOpened() check of lines 72-73 left out.
OpenSource_Unchecked ==
  /\ pc = "open"
  /\ \E ok \in BOOLEAN :
       /\ cap' = IF ok THEN "opened" ELSE "unopened"
       /\ pc' = "prepare"
  /\ UNCHANGED <<cfg_vars, steps, sink_vars, csv_vars, writer, window, frames_read,
                 results, frame, counts, last_counts, model_calls,
                 exit_status, raised_by, reported, saved_image>>

\* lines 71-73
OpenSource ==
  /\ pc = "open"
  /\ \E ok \in BOOLEAN :
       IF ok
       THEN /\ cap' = "opened"
            /\ pc' = "prepare"
            /\ UNCHANGED exit_status
       ELSE /\ cap' = "unopened"
            /\ pc' = "failed"
            /\ exit_status' = 1
  /\ UNCHANGED <<cfg_vars, steps, sink_vars, csv_vars, writer, window, frames_read,
                 results, frame, counts, last_counts, model_calls,
                 raised_by, reported, saved_image>>

\* lines 76-90
PrepareSinks ==
  /\ pc = "prepare"
  /\ writer' = IF args_save THEN "open" ELSE "none"
  /\ window' = "open"
  /\ last_counts' = EmptyDict
  /\ last_csv_time' = 0
  /\ pc' = "read"
  /\ UNCHANGED <<cfg_vars, steps, sink_vars, end_vars, cap, frames_read, results,
                 frame, counts, now, csv_file, csv_writes, csv_stamps,
                 model_calls>>

\* lines 92-93, ok
ReadFrame ==
  /\ pc = "read"
  /\ frames_read < MaxFrames
  /\ frames_read' = frames_read + 1
  /\ frame' = BlankFrame(frames_read + 1)
  /\ pc' = "predict"
  /\ steps' = <<>>
  /\ UNCHANGED <<cfg_vars, sink_vars, csv_vars, res_vars, end_vars, results,
                 counts, last_counts, model_calls>>

\* lines 92-93, not ok: break
EndOfStream ==
  /\ pc = "read"
  /\ pc' = "release"
  /\ UNCHANGED <<cfg_vars, steps, sink_vars, csv_vars, res_vars, end_vars,
                 frames_read, results, frame, counts, last_counts,
                 model_calls>>

\* lines 94-95
Predict ==
  /\ pc = "predict"
  /\ model_calls' = model_calls + 1
  /\ results' \in FrameResults
  /\ pc' = "annotate"
  /\ steps' = Append(steps, "model")
  /\ UNCHANGED <<cfg_vars, sink_vars, csv_vars, res_vars, end_vars,
                 frames_read, frame, counts, last_counts>>

\* line 94 raising: nothing in main() catches it
PredictRaises ==
  /\ pc = "predict"
  /\ model_calls' = model_calls + 1
  /\ raised_by' = "model.predict"
  /\ exit_status' = 1
  /\ pc' = "raised"
  /\ steps' = Append(steps, "model")
  /\ UNCHANGED <<cfg_vars, sink_vars, csv_vars, res_vars, frames_read,
                 results, frame, counts, last_counts, reported,
                 saved_image>>

\* line 96
Annotate ==
  /\ pc = "annotate"
  /\ frame' = annotate_frame(frame, results, names, args_conf)
  /\ pc' = "count"
  /\ steps' = Append(steps, "annotate")
  /\ UNCHANGED <<cfg_vars, sink_vars, csv_vars, res_vars, end_vars,
                 frames_read, results, counts, last_counts, model_calls>>

\* Count with the sink calls of lines 109-110 placed before the summary
\* overlay of lines 103-107.
Count_ForwardEarly ==
  /\ pc = "count"
  /\ counts' = count_per_class(results, names, args_conf)
  /\ last_counts' = counts'
  /\ pc' = "sink_file"
  /\ steps' = Append(steps, "count")
  /\ UNCHANGED <<cfg_vars, sink_vars, csv_vars, res_vars, end_vars,
                 frames_read, results, frame, model_calls>>

\* Count keeping a running tally: the new frame's counts are added to the
\* previous snapshot instead of replacing it.
Count_Accumulate ==
  /\ pc = "count"
  /\ LET new == count_per_class(results, names, args_conf)
     IN counts' = [k \in DOMAIN counts \cup DOMAIN new |->
                     Get(counts, k, 0) + Get(new, k, 0)]
  /\ last_counts' = counts'
  /\ pc' = "panel"
  /\ steps' = Append(steps, "count")
  /\ UNCHANGED <<cfg_vars, sink_vars, csv_vars, res_vars, end_vars,
                 frames_read, results, frame, model_calls>>

\* lines 99-100
Count ==
  /\ pc = "count"
  /\ counts' = count_per_class(results, names, args_conf)
  /\ last_counts' = counts'
  /\ pc' = "panel"
  /\ steps' = Append(steps, "count")
  /\ UNCHANGED <<cfg_vars, sink_vars, csv_vars, res_vars, end_vars,
                 frames_read, results, frame, model_calls>>

\* summary_panel with the min(10, ...) cap of line 104 left out.
summary_panel_Uncapped(c) ==
  LET ks == sorted_items(c)
  IN [height |-> RowHeight * (Cardinality(DOMAIN c) + 1),
      lines |-> <<<<"Total", Get(c, "__total", 0)>>>>
                \o [i \in 1..Len(ks) |-> <<ks[i], c[ks[i]]>>]]

\* lines 103-107
summary_panel(c) ==
  LET ks == sorted_items(c)
  IN [height |-> RowHeight * (Min(PanelRows, Cardinality(DOMAIN c)) + 1),
      lines |-> <<<<"Total", Get(c, "__total", 0)>>>>
                \o [i \in 1..Len(ks) |-> <<ks[i], c[ks[i]]>>]]

\* Panel followed by cv2.imshow, with writer.write of line 109 left out.
Panel_DisplayFirst ==
  /\ pc = "panel"
  /\ frame' = [frame EXCEPT !.panel = <<summary_panel(counts)>>,
                            !.ops = Append(frame.ops, "panel")]
  /\ pc' = "show"
  /\ steps' = Append(steps, "panel")
  /\ UNCHANGED <<cfg_vars, sink_vars, csv_vars, res_vars, end_vars,
                 frames_read, results, counts, last_counts, model_calls>>

Panel ==
  /\ pc = "panel"
  /\ frame' = [frame EXCEPT !.panel = <<summary_panel(counts)>>,
                            !.ops = Append(frame.ops, "panel")]
  /\ pc' = "sink_file"
  /\ steps' = Append(steps, "panel")
  /\ UNCHANGED <<cfg_vars, sink_vars, csv_vars, res_vars, end_vars,
                 frames_read, results, counts, last_counts, model_calls>>

\* line 109
WriteSink ==
  /\ pc = "sink_file"
  /\ IF writer = "open"
     THEN /\ writer_frames' = Append(writer_frames, frame.id)
          /\ writer_last' = frame
     ELSE UNCHANGED <<writer_frames, writer_last>>
  /\ pc' = "show"
  /\ steps' = IF writer = "open" THEN Append(steps, "file") ELSE steps
  /\ UNCHANGED <<cfg_vars, csv_vars, res_vars, end_vars, shown_frames,
                 shown_last, frames_read, results, frame, counts,
                 last_counts, model_calls>>

\* line 110
Show ==
  /\ pc = "show"
  /\ shown_frames' = Append(shown_frames, frame.id)
  /\ shown_last' = frame
  /\ pc' = "poll"
  /\ steps' = Append(steps, "display")
  /\ UNCHANGED <<cfg_vars, csv_vars, res_vars, end_vars, writer_frames,
                 writer_last, frames_read, results, frame, counts,
                 last_counts, model_calls>>

\* lines 112-114
PollKey ==
  /\ pc = "poll"
  /\ \E key \in Keys :
       pc' = IF key = Esc THEN "release" ELSE "debounce"
  /\ steps' = Append(steps, "poll")
  /\ UNCHANGED <<cfg_vars, sink_vars, csv_vars, res_vars, end_vars,
                 frames_read, results, frame, counts, last_counts,
                 model_calls>>

\* Debounce storing the clock reading at every check, written or not.
Debounce_Touch ==
  /\ pc = "debounce"
  /\ IF args_csv
     THEN \E t \in now..MaxTime :
            /\ now' = t
            /\ last_csv_time' = t
            /\ pc' = IF t - last_csv_time > Interval THEN "save" ELSE "read"
     ELSE /\ pc' = "read"
          /\ UNCHANGED <<now, last_csv_time>>
  /\ steps' = Append(steps, "debounce")
  /\ UNCHANGED <<cfg_vars, sink_vars, res_vars, end_vars, csv_file,
                 csv_writes, csv_stamps, frames_read, results, frame, counts,
                 last_counts, model_calls>>

\* Debounce with ">= 2" in place of line 116's "> 2".
Debounce_AtLeast ==
  /\ pc = "debounce"
  /\ IF args_csv
     THEN \E t \in now..MaxTime :
            /\ now' = t
            /\ pc' = IF t - last_csv_time >= Interval THEN "save" ELSE "read"
     ELSE /\ pc' = "read"
          /\ UNCHANGED now
  /\ steps' = Append(steps, "debounce")
  /\ UNCHANGED <<cfg_vars, sink_vars, res_vars, end_vars, last_csv_time,
                 csv_file, csv_writes, csv_stamps, frames_read, results,
                 frame, counts, last_counts, model_calls>>

\* line 116: t is the reading of time.time()
Debounce ==
  /\ pc = "debounce"
  /\ IF args_csv
     THEN \E t \in now..MaxTime :
            /\ now' = t
            /\ pc' = IF t - last_csv_time > Interval THEN "save" ELSE "read"
     ELSE /\ pc' = "read"
          /\ UNCHANGED now
  /\ steps' = Append(steps, "debounce")
  /\ UNCHANGED <<cfg_vars, sink_vars, res_vars, end_vars, last_csv_time,
                 csv_file, csv_writes, csv_stamps, frames_read, results,
                 frame, counts, last_counts, model_calls>>

\* line 117
Save ==
  /\ pc = "save"
  /\ csv_file' = save_counts_csv(counts)
  /\ csv_writes' = Append(csv_writes, now)
  /\ pc' = "stamp"
  /\ steps' = Append(steps, "write")
  /\ UNCHANGED <<cfg_vars, sink_vars, res_vars, end_vars, last_csv_time,
                 now, csv_stamps, frames_read, results, frame, counts,
                 last_counts, model_calls>>

\* line 117 raising: open(out_csv, "w") fails, nothing catches it
SaveRaises ==
  /\ pc = "save"
  /\ raised_by' = "save_counts_csv"
  /\ exit_status' = 1
  /\ pc' = "raised"
  /\ UNCHANGED <<cfg_vars, steps, sink_vars, csv_vars, res_vars, frames_read,
                 results, frame, counts, last_counts, model_calls, reported,
                 saved_image>>

\* Stamp with line 118's assignment to last_csv_time left out.
Stamp_Stale ==
  /\ pc = "stamp"
  /\ \E t \in now..MaxTime :
       /\ now' = t
       /\ csv_stamps' = Append(csv_stamps, last_csv_time)
  /\ pc' = "read"
  /\ UNCHANGED <<cfg_vars, steps, sink_vars, res_vars, end_vars, csv_file,
                 csv_writes, last_csv_time, frames_read, results, frame,
                 counts, last_counts, model_calls>>

\* line 118: a second reading of time.time()
Stamp ==
  /\ pc = "stamp"
  /\ \E t \in now..MaxTime :
       /\ now' = t
       /\ last_csv_time' = t
       /\ csv_stamps' = Append(csv_stamps, t)
  /\ pc' = "read"
  /\ UNCHANGED <<cfg_vars, steps, sink_vars, res_vars, end_vars, csv_file,
                 csv_writes, frames_read, results, frame, counts,
                 last_counts, model_calls>>

\* lines 120-122
Release ==
  /\ pc = "release"
  /\ cap' = "released"
  /\ writer' = IF writer = "open" THEN "closed" ELSE writer
  /\ window' = "destroyed"
  /\ pc' = "report"
  /\ UNCHANGED <<cfg_vars, steps, sink_vars, csv_vars, end_vars, frames_read,
                 results, frame, counts, last_counts, model_calls>>

\* lines 123-125, then main() returns
Report ==
  /\ pc = "report"
  /\ reported' = (DOMAIN last_counts # {} /\ args_csv)
  /\ exit_status' = 0
  /\ pc' = "closed"
  /\ UNCHANGED <<cfg_vars, steps, sink_vars, csv_vars, res_vars, frames_read,
                 results, frame, counts, last_counts, model_calls,
                 raised_by, saved_image>>

Next ==
  \/ OpenSource \/ PrepareSinks \/ ReadFrame \/ EndOfStream
  \/ Predict \/ PredictRaises \/ Annotate \/ Count \/ Panel
  \/ WriteSink \/ Show \/ PollKey \/ Debounce \/ Save \/ SaveRaises
  \/ Stamp \/ Release \/ Report

Spec == Init /\ [][Next]_vars

\* ---------------------------------------------------- main(): still branch
\* A destination file may hold rows of an earlier run.
StaleRows == <<<<"class", "count">>, <<"total", <<9>>>>, <<"zebra", <<9>>>>>>

InitStill ==
  /\ pc = "still_predict"
  /\ args_save \in BOOLEAN
  /\ args_csv \in BOOLEAN
  /\ args_conf \in Thresholds
  /\ names \in [ClassIds -> Labels]
  /\ results = <<>>
  /\ now \in StartClocks
  /\ cap = "none" /\ writer = "none" /\ window = "none"
  /\ frames_read = 0
  /\ frame = BlankFrame(0)
  /\ counts = EmptyDict /\ last_counts = EmptyDict
  /\ last_csv_time = 0
  /\ csv_file = StaleRows /\ csv_writes = <<>> /\ csv_stamps = <<>>
  /\ writer_frames = <<>> /\ writer_last = BlankFrame(0)
  /\ shown_frames = <<>> /\ shown_last = BlankFrame(0)
  /\ model_calls = 0
  /\ exit_status = -1 /\ raised_by = "none" /\ reported = FALSE
  /\ saved_image = BlankFrame(0)
  /\ steps = <<>>

\* line 55
StillPredict ==
  /\ pc = "still_predict"
  /\ model_calls' = model_calls + 1
  /\ results' \in BoundedSeq(Detection, MaxDets)
  /\ pc' = "still_count"
  /\ UNCHANGED <<cfg_vars, steps, sink_vars, csv_vars, res_vars, end_vars,
                 frames_read, frame, counts, last_counts>>

\* lines 56-57
StillCount ==
  /\ pc = "still_count"
  /\ counts' = count_per_class(results, names, args_conf)
  /\ pc' = "still_csv"
  /\ UNCHANGED <<cfg_vars, steps, sink_vars, csv_vars, res_vars, end_vars,
                 frames_read, results, frame, last_counts, model_calls>>

\* StillSave writing only under the stream loop's debounce condition.
StillSave_Debounced ==
  /\ pc = "still_csv"
  /\ IF args_csv /\ now - last_csv_time > Interval
     THEN /\ csv_file' = save_counts_csv(counts)
          /\ csv_writes' = Append(csv_writes, now)
          /\ reported' = TRUE
     ELSE UNCHANGED <<csv_file, csv_writes, reported>>
  /\ pc' = "still_annotate"
  /\ UNCHANGED <<cfg_vars, steps, sink_vars, res_vars, last_csv_time, now,
                 csv_stamps, exit_status, raised_by, saved_image,
                 frames_read, results, frame, counts, last_counts,
                 model_calls>>

\* lines 58-60
StillSave ==
  /\ pc = "still_csv"
  /\ IF args_csv
     THEN /\ csv_file' = save_counts_csv(counts)
          /\ csv_writes' = Append(csv_writes, now)
          /\ reported' = TRUE
     ELSE UNCHANGED <<csv_file, csv_writes, reported>>
  /\ pc' = "still_annotate"
  /\ UNCHANGED <<cfg_vars, steps, sink_vars, res_vars, last_csv_time, now,
                 csv_stamps, exit_status, raised_by, saved_image, frames_read, results,
                 frame, counts, last_counts, model_calls>>

\* line 59 raising: open(out_csv, "w") fails, nothing catches it
StillSaveRaises ==
  /\ pc = "still_csv"
  /\ args_csv
  /\ raised_by' = "save_counts_csv"
  /\ exit_status' = 1
  /\ pc' = "raised"
  /\ UNCHANGED <<cfg_vars, steps, sink_vars, csv_vars, res_vars, frames_read,
                 results, frame, counts, last_counts, model_calls, reported,
                 saved_image>>

\* lines 61-68
StillAnnotate ==
  /\ pc = "still_annotate"
  /\ IF args_save
     THEN /\ frame' = annotate_frame(BlankFrame(1), results, names, args_conf)
          /\ saved_image' = frame'
     ELSE UNCHANGED <<frame, saved_image>>
  /\ exit_status' = 0
  /\ pc' = "done"
  /\ UNCHANGED <<cfg_vars, steps, sink_vars, csv_vars, res_vars, raised_by,
                 reported, frames_read, results, counts, last_counts,
                 model_calls>>

NextStill ==
  \/ StillPredict \/ StillCount \/ StillSave \/ StillSaveRaises
  \/ StillAnnotate

SpecStill == InitStill /\ [][NextStill]_vars

\* -------------------------------------- main(): the overlay summary alone
\* Lines 99-107 of a first iteration, for a model of MaxCats classes whose
\* ids run against the lexicographic order of their labels.
PanelClassIds == 0..(MaxCats - 1)

PanelNames == [c \in PanelClassIds |-> LabelOrder[MaxCats + 1 - c]]

\* One accepted detection per class of S, by ascending class id.
RECURSIVE OnePerClass(_)
OnePerClass(S) ==
  IF S = {} THEN <<>>
  ELSE LET c == CHOOSE x \in S : \A y \in S : x <= y
       IN <<Det(90, c)>> \o OnePerClass(S \ {c})

InitPanel ==
  /\ pc = "count"
  /\ args_save = FALSE /\ args_csv = FALSE
  /\ args_conf = StreamConf
  /\ names = PanelNames
  /\ \E S \in SUBSET PanelClassIds : results = OnePerClass(S)
  /\ frame = annotate_frame(BlankFrame(1), results, names, args_conf)
  /\ now = Interval + 1
  /\ cap = "opened" /\ writer = "none" /\ window = "open"
  /\ frames_read = 1 /\ model_calls = 1
  /\ counts = EmptyDict /\ last_counts = EmptyDict
  /\ last_csv_time = 0
  /\ csv_file = <<>> /\ csv_writes = <<>> /\ csv_stamps = <<>>
  /\ writer_frames = <<>> /\ writer_last = BlankFrame(0)
  /\ shown_frames = <<>> /\ shown_last = BlankFrame(0)
  /\ exit_status = -1 /\ raised_by = "none" /\ reported = FALSE
  /\ saved_image = BlankFrame(0)
  /\ steps = <<"model", "annotate">>

NextPanel == Count \/ Panel

SpecPanel == InitPanel /\ [][NextPanel]_vars

TypeOK ==
  /\ pc \in {"open", "failed", "prepare", "read", "predict", "annotate",
             "count", "panel", "sink_file", "show", "poll", "debounce",
             "save", "stamp", "release", "report", "closed", "raised",
             "still_predict", "still_count", "still_csv", "still_annotate",
             "done"}
  /\ now \in 0..MaxTime /\ last_csv_time \in 0..MaxTime
  /\ frames_read \in 0..MaxFrames

\* ------------------------------------------------------------------ claims
Accepted(r, t) == {i \in DOMAIN r : r[i].conf >= t}

Categories(c) == DOMAIN c \ {"__total"}

\* A frame has been processed in this run: line 100 has assigned last_counts.
FrameProcessed == DOMAIN last_counts # {}

\* C1: in a stream run that reached Closed with a destination configured
\* and at least one frame processed, the destination holds the snapshot of
\* the last processed frame (the effect of a final unconditional write).
C1_FinalWriteAtClosed ==
  (pc = "closed" /\ args_csv /\ FrameProcessed)
    => csv_file = save_counts_csv(last_counts)

\* C2: a failing periodic snapshot write never ends the stream run: the
\* exception of save_counts_csv does not leave main().
C2_WriteFailureNonFatal ==
  ~(pc = "raised" /\ raised_by = "save_counts_csv")

\* The value last_csv_time holds by the code's own bookkeeping: 0 until a
\* write has been stamped, then the reading taken right after the last write.
LastStamp ==
  IF csv_stamps = <<>> THEN 0 ELSE csv_stamps[Len(csv_stamps)]

DebounceStep == pc = "debounce" /\ args_csv /\ pc' # "debounce"

\* C3 as stated: with a destination configured, the iteration whose clock
\* reading is t writes if and only if no write has happened yet in the run
\* or t - last >= 2.
C3_DebounceAtLeast ==
  [][DebounceStep =>
       ((pc' = "save") <=>
          (csv_writes = <<>> \/ now' - LastStamp >= Interval))]_vars

\* C3 amended: with a destination configured, the iteration whose clock
\* reading is t writes if and only if t - last > 2, where last is 0 until
\* a write has been made and from then on the clock reading stored right
\* after the latest write.
C3_DebounceStrict ==
  [][DebounceStep =>
       ((pc' = "save") <=> (now' - LastStamp > Interval))]_vars

\* C3 witness: after one write, the second iteration came exactly Interval
\* after the stored reading and wrote nothing.
C3_Witness ==
  /\ pc = "read" /\ args_csv /\ frames_read = 2
  /\ Len(csv_writes) = 1 /\ Len(csv_stamps) = 1
  /\ now - last_csv_time = Interval

\* C4: whatever the number of frames per time unit, two successive
\* periodic writes of a stream run are at least Interval apart.
C4_WriteSpacing ==
  \A i \in 1..(Len(csv_writes) - 1) :
    csv_writes[i + 1] - csv_writes[i] >= Interval

\* C4 witness: a second periodic write was made, with a frame in between
\* that wrote nothing.
C4_Witness ==
  /\ Len(csv_writes) = 2 /\ frames_read = 3 /\ pc = "stamp"

\* C5: a source that cannot be opened ends the run in Failed with a failure
\* exit status; no writer, no window, no frame read, no model call, no
\* snapshot written, nothing handed to a sink.
C5_OpenFailureAborts ==
  cap = "unopened" =>
    /\ pc = "failed" /\ exit_status = 1
    /\ writer = "none" /\ window = "none"
    /\ frames_read = 0 /\ model_calls = 0
    /\ csv_file = <<>> /\ csv_writes = <<>>
    /\ writer_frames = <<>> /\ shown_frames = <<>>

\* C5 witness: the source failed to open.
C5_Witness == cap = "unopened" /\ pc = "failed"

\* C6: when an exception leaves a stream run whose source opened, the
\* source has been released and an opened writer has been closed.
C6_ClosedBeforeErrorPropagates ==
  pc = "raised" => (cap = "released" /\ writer # "open")

\* A frame buffer carrying the whole overlay of its iteration: a box per
\* accepted detection, then the panel with the total line and one line per
\* category.
Composed(f) ==
  /\ f.ops = <<"boxes", "panel">>
  /\ Len(f.panel) = 1
  /\ f.id = frame.id =>
       /\ {b.box : b \in {f.boxes[j] : j \in DOMAIN f.boxes}}
            = Accepted(results, args_conf)
       /\ Len(f.boxes) = Cardinality(Accepted(results, args_conf))
       /\ Len(f.panel[1].lines) = 1 + Cardinality(Categories(counts))
       /\ f.panel[1].lines[1] = <<"Total", counts["__total"]>>

\* C7: every frame buffer the writer or the display received carries the
\* complete overlay of its frame.
C7_SinksSeeComposedFrames ==
  /\ writer_frames # <<>> => Composed(writer_last)
  /\ shown_frames # <<>> => Composed(shown_last)

\* C7 witness: both sinks received the frame with three detections, two of
\* them accepted.
C7_Witness ==
  /\ pc = "poll" /\ Len(results) = 3
  /\ writer_last = frame /\ shown_last = frame
  /\ Len(frame.boxes) = 2

\* count_per_class has returned in the still run.
Counted == pc \in {"still_csv", "still_annotate", "done", "raised"}

\* C8: the snapshot's total equals the sum of its per-category counts and
\* the number of detections with confidence >= threshold; no detections
\* give no categories and total 0.
C8_TotalIsAcceptedCount ==
  Counted =>
    /\ counts["__total"] = SumOver(counts, Categories(counts))
    /\ counts["__total"] = Cardinality(Accepted(results, args_conf))
    /\ results = <<>> => (Categories(counts) = {} /\ counts["__total"] = 0)

\* Detections the counting loop keeps: every increment of line 16.
KeptForCounting(r, nm, t) ==
  LET c == CountLoop(r, nm, t, EmptyDict, 1) IN SumOver(c, DOMAIN c)

AcceptedAs(L) ==
  {i \in Accepted(results, args_conf) : names[results[i].cls] = L}

Example == <<Det(90, 0), Det(20, 1), Det(50, 0)>>

\* C9: a detection is kept if and only if its confidence >= threshold,
\* equality included, by the counting and by the drawing alike; what is
\* kept shrinks (or stays) as the threshold grows; confidences 0.9, 0.2,
\* 0.5 labelled cat, dog, cat at threshold 0.25 count as cat 2, total 2.
C9_FilterKeepsAtOrAbove ==
  /\ Counted =>
       /\ \A L \in Labels \ {"__total"} :
            /\ Get(counts, L, 0) = Cardinality(AcceptedAs(L))
            /\ L \in DOMAIN counts <=> AcceptedAs(L) # {}
       /\ pc = "still_csv" =>
            LET T == Thresholds \cup {0, 100}
                kept == [t \in T |-> KeptForCounting(results, names, t)]
                drawn == [t \in T |-> Len(DrawLoop(results, names, t, 1))]
            IN \A t1, t2 \in T :
                 t1 <= t2 =>
                   /\ kept[t2] <= kept[t1]
                   /\ drawn[t2] <= drawn[t1]
                   /\ kept[t1] = Cardinality(Accepted(results, t1))
       /\ (results = Example /\ names = StreamNames /\ args_conf = StreamConf)
            => counts = [k \in {"cat", "__total"} |-> 2]
  /\ (pc = "done" /\ args_save) =>
       /\ Len(saved_image.boxes) = Cardinality(Accepted(results, args_conf))
       /\ \A j \in DOMAIN saved_image.boxes :
            /\ saved_image.boxes[j].box \in Accepted(results, args_conf)
            /\ \A k \in DOMAIN saved_image.boxes :
                 j < k => saved_image.boxes[j].box < saved_image.boxes[k].box

\* C9 witness: counted and drawn, with one detection exactly at the
\* threshold (kept) and one below it (dropped).
C9_Witness ==
  /\ pc = "done" /\ args_save
  /\ \E i, j \in DOMAIN results :
       /\ results[i].conf = args_conf /\ results[j].conf < args_conf
       /\ names[results[i].cls] # "__total"
       /\ counts[names[results[i].cls]] >= 1
  /\ Len(saved_image.boxes) = Len(results) - 1

\* Reading the record back: the total from the second row, a count per
\* category row.
read_counts_csv(rows) ==
  [k \in {"__total"} \cup {rows[i][1] : i \in 3..Len(rows)} |->
     IF k = "__total" THEN ParseInt(rows[2][2])
     ELSE ParseInt(rows[CHOOSE i \in 3..Len(rows) : rows[i][1] = k][2])]

\* The still run has written the destination.
Saved == args_csv /\ pc \in {"still_annotate", "done"}

\* C10: the destination holds the header row, the total row, then one row
\* per category in lexicographic label order and nothing else (earlier
\* content is gone); reading it back gives the total and every count.
C10_CsvRecord ==
  Saved =>
    /\ csv_file[1] = <<"class", "count">>
    /\ csv_file[2][1] = "total"
    /\ csv_file[2][2] = Str(counts["__total"])
    /\ Len(csv_file) = 2 + Cardinality(Categories(counts))
    /\ \A i \in 3..Len(csv_file) :
         /\ csv_file[i][1] \in Categories(counts)
         /\ \A j \in 3..Len(csv_file) :
              i < j => Rank(csv_file[i][1]) < Rank(csv_file[j][1])
    /\ read_counts_csv(csv_file) = counts

\* C10 witness: a snapshot with two categories was written over the rows
\* of an earlier run.
C10_Witness ==
  /\ Saved /\ Cardinality(Categories(counts)) = 2
  /\ Len(csv_file) = 4 /\ csv_file # StaleRows

\* C11: a still run that reached Done invoked the model once and, with a
\* destination requested, wrote the snapshot once whatever the clock and
\* the timer (without one, wrote nothing), the write coming before the
\* annotated image; it opened no source, writer or window.
C11_StillOnePass ==
  /\ pc \in {"still_count", "still_csv", "still_annotate", "done"}
       => model_calls = 1
  /\ (pc \in {"still_annotate", "done"} /\ args_csv)
       => (Len(csv_writes) = 1 /\ csv_file = save_counts_csv(counts))
  /\ (pc \in {"still_annotate", "done"} /\ ~args_csv)
       => (csv_writes = <<>> /\ csv_file = StaleRows)
  /\ saved_image # BlankFrame(0)
       => (pc = "done" /\ args_save /\ (args_csv => Len(csv_writes) = 1))
  /\ pc \in {"still_predict", "still_count", "still_csv", "still_annotate",
             "done"}
       => /\ cap = "none" /\ writer = "none" /\ window = "none"
          /\ frames_read = 0
          /\ writer_frames = <<>> /\ shown_frames = <<>>

\* C11 witness: a still run at clock reading 0 is Done, with the snapshot
\* written and the annotated image saved.
C11_Witness ==
  /\ pc = "done" /\ args_csv /\ args_save /\ now = 0
  /\ Len(csv_writes) = 1 /\ saved_image.ops = <<"boxes">>

\* The stream iteration is past line 100 for the current frame.
CountedFrame ==
  pc \in {"panel", "sink_file", "show", "poll", "debounce", "save", "stamp"}

\* C12: in a stream run the snapshot of a frame is determined by that
\* frame's accepted detections alone: its categories are the labels of the
\* frame's accepted detections, each with its number of them, and the total
\* is their number; nothing of earlier frames remains in it.
C12_SnapshotOfCurrentFrameOnly ==
  CountedFrame =>
    /\ Categories(counts) = {names[results[i].cls] :
                               i \in Accepted(results, args_conf)}
    /\ \A L \in Categories(counts) : counts[L] = Cardinality(AcceptedAs(L))
    /\ counts["__total"] = Cardinality(Accepted(results, args_conf))
    /\ last_counts = counts

\* C12 witness: the second frame has no detection while the destination
\* still holds the first frame's snapshot with a category in it.
C12_Witness ==
  /\ pc = "panel" /\ frames_read = 2 /\ results = <<>>
  /\ Len(csv_file) > 2
  /\ counts = [k \in {"__total"} |-> 0]

\* The calls of one iteration up to the stop poll, in the order of lines
\* 94-112; writer.write only when a writer exists.
UpToPoll ==
  <<"model", "annotate", "count", "panel">>
  \o (IF args_save THEN <<"file">> ELSE <<>>)
  \o <<"display", "poll">>

IsPrefix(a, b) == Len(a) <= Len(b) /\ a = SubSeq(b, 1, Len(a))

\* The loop is between iterations or has been left without an exception.
BetweenIterations ==
  /\ pc \in {"read", "release", "report", "closed"}
  /\ frames_read > 0

RunOver == pc \in {"closed", "raised"}

\* C14: with --save the writer receives one write per frame read, in read
\* order, and is closed when the run is over; without --save no writer
\* exists and nothing is written to one.
C14_FileSinkLifecycle ==
  /\ (args_save /\ RunOver)
       => /\ writer = "closed"
          /\ writer_frames = [i \in 1..frames_read |-> i]
  /\ (args_save /\ pc = "read") => Len(writer_frames) = frames_read
  /\ ~args_save => (writer = "none" /\ writer_frames = <<>>)

\* C15: a stream run whose source opened and whose model invocations all
\* returned does not stop anywhere but in Closed, with the source released,
\* the writer closed, the window torn down and exit status 0.
C15_EndsClosed ==
  (cap \in {"opened", "released"} /\ raised_by # "model.predict"
     /\ ~ENABLED Next)
    => /\ pc = "closed" /\ exit_status = 0
       /\ cap = "released" /\ writer # "open" /\ window = "destroyed"

\* C16: the timer is 0 ("never written") at the start of the run and is
\* assigned only by the step that follows a performed write (line 118);
\* every other step leaves it as it is.
C16_TimerChangesOnlyOnWrite ==
  /\ last_csv_time = 0
  /\ [][last_csv_time' # last_csv_time =>
          /\ pc = "stamp"
          /\ Len(csv_writes) = Len(csv_stamps) + 1
          /\ last_csv_time' = now']_vars

\* C16 witness: after a first write was stamped, two more iterations have
\* ended without a write, the clock having moved on, and the timer still
\* holds the stamp.
C16_Witness ==
  /\ pc = "read" /\ frames_read = 3 /\ args_csv
  /\ Len(csv_writes) = 1 /\ Len(csv_stamps) = 1
  /\ last_csv_time = csv_stamps[1] /\ last_csv_time > 0
  /\ now > last_csv_time

\* The panel of the current frame has been drawn.
PanelDrawn == pc = "sink_file" /\ Len(frame.panel) = 1

\* The text of the panel: "Total: N", then every category with its count,
\* in lexicographic label order.
PanelText(p) ==
  LET n == Cardinality(Categories(counts))
  IN /\ Len(p.lines) = n + 1
     /\ p.lines[1] = <<"Total", counts["__total"]>>
     /\ \A i \in 2..(n + 1) :
          /\ p.lines[i][1] \in Categories(counts)
          /\ p.lines[i][2] = counts[p.lines[i][1]]
          /\ \A j \in 2..(n + 1) :
               i < j => Rank(p.lines[i][1]) < Rank(p.lines[j][1])
     /\ n = 0 => p.lines = <<<<"Total", 0>>>>

C18_DrawnEqualsCounted ==
  (pc = "done" /\ args_save) =>
    /\ Len(saved_image.boxes) = counts["__total"]
    /\ \A L \in Categories(counts) :
         Cardinality({j \in DOMAIN saved_image.boxes :
                        saved_image.boxes[j].label = L}) = counts[L]

\* C19: a stream run that printed "Final counts" / "Saved CSV" at shutdown
\* has written the destination at least once, and the destination holds
\* the final counts it printed.
C19_ReportedMeansSaved ==
  (pc = "closed" /\ reported) =>
    /\ csv_writes # <<>>
    /\ csv_file = save_counts_csv(last_counts)

====
